---------------------------- MODULE Spec2Model ----------------------------
(***************************************************************************)
(* Model of the guse profile store (src/src/config/mod.rs), of the         *)
(* commands that drive it (src/src/cli/*.rs), of the git side of switch    *)
(* (src/src/git/mod.rs) and of the ~/.ssh/config parser.                   *)
(*                                                                         *)
(* The backing TOML file is a sequence of lines.  Config methods run as    *)
(* steps of a calling thread (load, backup, lock, write) so that the order *)
(* of the file effects inside one call, and the interleaving of calls of   *)
(* several threads, are visible.                                           *)
(***************************************************************************)
EXTENDS Integers, Sequences, FiniteSets, TLC

(* ------------------------------ bounds --------------------------------- *)
\* profile keys in use
NumKeys == 2
\* pieces after the scheme of an origin URL
MaxTokens == 5
\* lines of ~/.ssh/config
MaxLines == 3
\* calls the single thread makes in one behaviour
MaxCalls == 3
MaxPrior == 1

KeyNames == <<"p1", "p2", "p3", "p4">>
ProfileKeys == {KeyNames[i] : i \in 1..NumKeys}

\* the two profiles of the CLI tests; the store never looks inside a Profile
UserNames == <<"User One", "User Two">>
Emails == <<"p1@example.com", "p2@example.com">>
SshHosts == <<"github.com", "gitlab.com">>

\* struct Profile { name, email, ssh_host }
Profile(i) == [name |-> UserNames[i], email |-> Emails[i], ssh_host |-> SshHosts[i]]
Profiles == {Profile(i) : i \in DOMAIN UserNames}

\* Option<String>::None
None == "None"

\* type ProfileMap = HashMap<String, Profile>
ProfileMaps == UNION {[D -> Profiles] : D \in SUBSET ProfileKeys}
EmptyMap == [k \in {} |-> Profile(1)]

\* faulty variant: insert that keeps an existing entry (entry().or_insert())
MapInsertKeep(M, k, p) == [x \in DOMAIN M \cup {k} |-> IF x \in DOMAIN M THEN M[x] ELSE p]

\* faulty variant: remove that clears the map
MapRemoveAll(M, k) == [x \in {} |-> M[x]]

\* HashMap::insert
MapInsert(M, k, p) == [x \in DOMAIN M \cup {k} |-> IF x = k THEN p ELSE M[x]]

\* HashMap::remove
MapRemove(M, k) == [x \in DOMAIN M \ {k} |-> M[x]]

\* struct ConfigFile { default_profile: Option<String>, profiles: ProfileMap }
ConfigFile(dp, M) == [default_profile |-> dp, profiles |-> M]
\* #[derive(Default)]
ConfigFileDefault == ConfigFile(None, EmptyMap)

(* ------------------------- the TOML document --------------------------- *)
\* `default_profile = "<k>"`
DefaultLine(k) == [kind |-> "default_profile", value |-> k]
\* `[profiles]`, the header toml writes for an empty table
ProfilesHeader == [kind |-> "profiles"]
\* `[profiles.<k>]` followed by its name, email and ssh_host keys
TableLine(k, p) == [kind |-> "table", key |-> k, name |-> p.name,
                    email |-> p.email, ssh_host |-> p.ssh_host]
\* a line that is not TOML
JunkLine == [kind |-> "junk"]

\* faulty variant: an unset default is written as an empty string
SerializeEmptyDefault(cf) ==
    LET ord == SelectSeq(KeyNames, LAMBDA k : k \in DOMAIN cf.profiles)
    IN  <<DefaultLine(IF cf.default_profile = None THEN "" ELSE cf.default_profile)>>
        \o (IF DOMAIN cf.profiles = {} THEN <<ProfilesHeader>>
            ELSE [i \in 1..Len(ord) |-> TableLine(ord[i], cf.profiles[ord[i]])])

\* the order in which the tables of a map are written.  A HashMap iterates
\* in an arbitrary order and the parser does not depend on it; the model
\* writes the tables in the order of KeyNames.
KeyOrder(S) == SelectSeq(KeyNames, LAMBDA k : k \in S)

\* toml::to_string_pretty(&ConfigFile): default_profile is skipped when None
\* (skip_serializing_if), then one table per profile
Serialize(cf) ==
    LET ord == KeyOrder(DOMAIN cf.profiles)
    IN  (IF cf.default_profile = None THEN <<>> ELSE <<DefaultLine(cf.default_profile)>>)
        \o (IF DOMAIN cf.profiles = {} THEN <<ProfilesHeader>>
            ELSE [i \in 1..Len(ord) |-> TableLine(ord[i], cf.profiles[ord[i]])])

LinesOf(text, kind) == {i \in DOMAIN text : text[i].kind = kind}

\* toml::from_str::<ConfigFile> succeeds: no syntax error, no key defined twice
ParseOk(text) ==
    /\ LinesOf(text, "junk") = {}
    /\ Cardinality(LinesOf(text, "default_profile")) <= 1
    /\ Cardinality(LinesOf(text, "profiles")) <= 1
    /\ \A i, j \in LinesOf(text, "table") : text[i].key = text[j].key => i = j

\* toml::from_str::<ConfigFile> with #[serde(default)]: missing keys take
\* their Default value
Parse(text) ==
    LET d == LinesOf(text, "default_profile")
        t == LinesOf(text, "table")
        keys == {text[i].key : i \in t}
        line(k) == text[CHOOSE i \in t : text[i].key = k]
    IN ConfigFile(IF d = {} THEN None ELSE text[CHOOSE i \in d : TRUE].value,
                  [k \in keys |-> [name |-> line(k).name, email |-> line(k).email,
                                   ssh_host |-> line(k).ssh_host]])

(* ------------------------------ the state ------------------------------ *)
Threads == {"t1", "t2"}

VARIABLES
    file,             \* the backing file at Config.path: [exists, text]
    backup_file,      \* per thread: the copy Config::backup made in the running call
    default_profile,  \* Config.default_profile
    CONFIG_LOCK,      \* holder of the static Mutex, or "free"
    threads,          \* the threads that call into the Config
    pc,               \* per thread: position inside the running call
    op,               \* per thread: the running (or last) call and its arguments
    callee,           \* per thread: the Config method being executed
    profiles,         \* per thread: the local `profiles` map handed to save_profiles
    result,           \* per thread: what the last call returned
    before,           \* file and default_profile when the latest call began
    calls,            \* number of calls begun so far
    bak_file,         \* the copy at Config.path.with_extension("config.bak")
    git,              \* the repository: user.name, user.email and remote origin
    switched,         \* how the running (or last) switch chose its profile
    parsed,           \* what the last Git::parse_origin_url returned
    ssh               \* ~/.ssh/config and its parser: the lines, the command reading
                      \* them, the position, hosts and current_host (<<>> is None)

\* what the profile store does not touch
extVars == <<bak_file, git, switched, parsed, ssh>>

vars == <<file, backup_file, default_profile, CONFIG_LOCK, threads, pc, op,
          callee, profiles, result, before, calls, extVars>>

NoFile == [exists |-> FALSE, text |-> <<>>]
FileOf(text) == [exists |-> TRUE, text |-> text]

Ok(v) == [status |-> "Ok", error |-> "", value |-> v]
Err(e) == [status |-> "Err", error |-> e, value |-> ConfigFileDefault]
NoResult == [status |-> "none", error |-> "", value |-> ConfigFileDefault]

NoOp == [name |-> "none", key |-> None, profile |-> Profile(1), arg |-> None]

\* a repository with no remote named origin / a remote origin with its URL
NoOrigin == [exists |-> FALSE, url |-> <<>>]
OriginOf(u) == [exists |-> TRUE, url |-> u]

\* nothing chosen, nothing parsed, no SSH configuration read yet
NoGit == [user_name |-> "", user_email |-> "", origin |-> NoOrigin]
NoSwitch == [prompted |-> FALSE, applied |-> None, by_default |-> FALSE, git |-> NoGit]
NoParse == [status |-> "none", error |-> "", user |-> <<>>, repo |-> <<>>]
NoSsh == [exists |-> FALSE, content |-> <<>>, variant |-> "list_ssh", state |-> "start",
          pos |-> 0, hosts |-> <<>>, current_host |-> <<>>, error |-> "",
          added |-> <<>>, add_error |-> ""]

\* the part of the state outside the profile store, before anything ran
ExtInit ==
    /\ bak_file = NoFile
    /\ switched = NoSwitch
    /\ parsed = NoParse

AllIdle == \A u \in threads : pc[u] = "idle"

\* the single thread makes up to MaxCalls calls one after the other; each of
\* the concurrent threads makes one call
MayCall(t) == IF Cardinality(threads) = 1 THEN calls < MaxCalls ELSE op[t].name = "none"

(* ----------------------------- Config::new ----------------------------- *)
\* the default_profile Config::new takes from the file; anything that goes
\* wrong (no file, unreadable, unparseable) leaves ConfigFile::default()
NewDefault(readOk) ==
    IF file.exists /\ readOk /\ ParseOk(file.text)
    THEN Parse(file.text).default_profile
    ELSE None

\* a new invocation of the program builds its Config from the file; nothing
\* of the previous invocation's calls is left in memory
ConfigNew ==
    /\ AllIdle
    /\ \E readOk \in BOOLEAN : default_profile' = NewDefault(readOk)
    /\ op' = [t \in Threads |-> NoOp]
    /\ callee' = [t \in Threads |-> "none"]
    /\ profiles' = [t \in Threads |-> EmptyMap]
    /\ result' = [t \in Threads |-> NoResult]
    /\ backup_file' = [t \in Threads |-> NoFile]
    /\ before' = [file |-> file, default_profile |-> default_profile']
    /\ UNCHANGED <<file, CONFIG_LOCK, threads, pc, calls, extVars>>

\* Config::get_default_profile
get_default_profile == default_profile

\* faulty variant: an unparseable file loads as the empty ConfigFile, as in
\* Config::new
load_config_fileLenient(readOk) ==
    IF ~file.exists THEN Ok(ConfigFileDefault)
    ELSE IF ~readOk THEN Err("Cannot read configuration file")
    ELSE IF ~ParseOk(file.text) THEN Ok(ConfigFileDefault)
    ELSE Ok(Parse(file.text))

\* faulty variant: the nested `if let Ok` of Config::new, where whatever goes
\* wrong gives the empty ConfigFile
load_config_fileOrDefault(readOk) ==
    IF file.exists /\ readOk /\ ParseOk(file.text) THEN Ok(Parse(file.text))
    ELSE Ok(ConfigFileDefault)

\* Config::load_config_file
load_config_file(readOk) ==
    IF ~file.exists THEN Ok(ConfigFileDefault)
    ELSE IF ~readOk THEN Err("Cannot read configuration file")
    ELSE IF ~ParseOk(file.text) THEN Err("TOML Parsing Error")
    ELSE Ok(Parse(file.text))

(* ------------------------------ the calls ------------------------------ *)
Return(t, r) ==
    /\ pc' = [pc EXCEPT ![t] = "idle"]
    /\ result' = [result EXCEPT ![t] = r]

\* a call begins: its locals are fresh, and the backup path of its
\* timestamp does not exist yet
Begin(t, o, first, at, M) ==
    /\ t \in threads
    /\ pc[t] = "idle"
    /\ MayCall(t)
    /\ calls' = calls + 1
    /\ op' = [op EXCEPT ![t] = o]
    /\ callee' = [callee EXCEPT ![t] = first]
    /\ pc' = [pc EXCEPT ![t] = at]
    /\ profiles' = [profiles EXCEPT ![t] = M]
    /\ backup_file' = [backup_file EXCEPT ![t] = NoFile]
    /\ result' = [result EXCEPT ![t] = NoResult]
    /\ before' = [file |-> file, default_profile |-> default_profile]

\* a caller invokes load_config_file (load_profiles is its .profiles)
Call_load_config_file(t) ==
    /\ Begin(t, [NoOp EXCEPT !.name = "load_config_file"], "load_config_file", "load", EmptyMap)
    /\ UNCHANGED <<file, default_profile, CONFIG_LOCK, threads, extVars>>

Call_save_profiles(t) ==
    \E M \in ProfileMaps :
        /\ Begin(t, [NoOp EXCEPT !.name = "save_profiles"], "save_profiles", "backup", M)
        /\ UNCHANGED <<file, default_profile, CONFIG_LOCK, threads, extVars>>

Call_add_profile(t) ==
    \E k \in ProfileKeys, p \in Profiles :
        /\ Begin(t, [NoOp EXCEPT !.name = "add_profile", !.key = k, !.profile = p],
                 "add_profile", "load", EmptyMap)
        /\ UNCHANGED <<file, default_profile, CONFIG_LOCK, threads, extVars>>

Call_update_profile(t) ==
    \E k \in ProfileKeys, p \in Profiles :
        /\ Begin(t, [NoOp EXCEPT !.name = "update_profile", !.key = k, !.profile = p],
                 "update_profile", "load", EmptyMap)
        /\ UNCHANGED <<file, default_profile, CONFIG_LOCK, threads, extVars>>

Call_delete_profile(t) ==
    \E k \in ProfileKeys :
        /\ Begin(t, [NoOp EXCEPT !.name = "delete_profile", !.key = k],
                 "delete_profile", "load", EmptyMap)
        /\ UNCHANGED <<file, default_profile, CONFIG_LOCK, threads, extVars>>

\* faulty variant: the in-memory default is left alone until the save is done
Call_set_default_profileLate(t) ==
    \E d \in ProfileKeys \cup {None} :
        /\ AllIdle
        /\ Begin(t, [NoOp EXCEPT !.name = "set_default_profile", !.arg = d],
                 "set_default_profile", "load", EmptyMap)
        /\ UNCHANGED <<file, default_profile, CONFIG_LOCK, threads, extVars>>

\* Config::set_default_profile: the assignment comes first
Call_set_default_profile(t) ==
    \E d \in ProfileKeys \cup {None} :
        /\ AllIdle
        /\ Begin(t, [NoOp EXCEPT !.name = "set_default_profile", !.arg = d],
                 "set_default_profile", "load", EmptyMap)
        /\ default_profile' = d
        /\ UNCHANGED <<file, CONFIG_LOCK, threads, extVars>>

\* SetDefaultCommand::execute starts with config.load_profiles()
Call_SetDefaultCommand(t) ==
    \E k \in ProfileKeys :
        /\ AllIdle
        /\ Begin(t, [NoOp EXCEPT !.name = "SetDefaultCommand", !.key = k],
                 "load_profiles", "load", EmptyMap)
        /\ UNCHANGED <<file, default_profile, CONFIG_LOCK, threads, extVars>>

\* faulty variant: the command saves without clearing the default
Call_UnsetDefaultCommandKeep(t) ==
    /\ AllIdle
    /\ Begin(t, [NoOp EXCEPT !.name = "UnsetDefaultCommand"], "set_default_profile", "load", EmptyMap)
    /\ UNCHANGED <<file, default_profile, CONFIG_LOCK, threads, extVars>>

\* UnsetDefaultCommand::execute is config.set_default_profile(None)
Call_UnsetDefaultCommand(t) ==
    /\ AllIdle
    /\ Begin(t, [NoOp EXCEPT !.name = "UnsetDefaultCommand"], "set_default_profile", "load", EmptyMap)
    /\ default_profile' = None
    /\ UNCHANGED <<file, CONFIG_LOCK, threads, extVars>>

(* --------------------- the steps of a running call --------------------- *)
\* faulty variant: update_profile without its contains_key check
AfterLoadNoCheck(m, cf, k, p) ==
    CASE m = "add_profile" -> Ok(ConfigFile(None, MapInsert(cf.profiles, k, p)))
      [] m = "update_profile" -> Ok(ConfigFile(None, MapInsert(cf.profiles, k, p)))
      [] m = "delete_profile" ->
            IF k \notin DOMAIN cf.profiles THEN Err("Profile does not exist")
            ELSE Ok(ConfigFile(None, MapRemove(cf.profiles, k)))
      [] OTHER -> Ok(ConfigFile(None, cf.profiles))

\* faulty variant: set_default_profile saves no profiles along with the default
AfterLoadDropProfiles(m, cf, k, p) ==
    CASE m = "add_profile" -> Ok(ConfigFile(None, MapInsert(cf.profiles, k, p)))
      [] m = "update_profile" ->
            IF k \notin DOMAIN cf.profiles THEN Err("Profile does not exist")
            ELSE Ok(ConfigFile(None, MapInsert(cf.profiles, k, p)))
      [] m = "delete_profile" ->
            IF k \notin DOMAIN cf.profiles THEN Err("Profile does not exist")
            ELSE Ok(ConfigFile(None, MapRemove(cf.profiles, k)))
      [] OTHER -> Ok(ConfigFile(None, EmptyMap))

\* what the method does with the loaded ConfigFile: the map it goes on to
\* save, or the error it returns
AfterLoad(m, cf, k, p) ==
    CASE m = "add_profile" -> Ok(ConfigFile(None, MapInsert(cf.profiles, k, p)))
      [] m = "update_profile" ->
            IF k \notin DOMAIN cf.profiles THEN Err("Profile does not exist")
            ELSE Ok(ConfigFile(None, MapInsert(cf.profiles, k, p)))
      [] m = "delete_profile" ->
            IF k \notin DOMAIN cf.profiles THEN Err("Profile does not exist")
            ELSE Ok(ConfigFile(None, MapRemove(cf.profiles, k)))
      [] OTHER -> Ok(ConfigFile(None, cf.profiles))

\* faulty variant: the command without its existence check
SetDefaultCheckAlways(M, k) == TRUE

\* the check SetDefaultCommand::execute makes on the loaded profiles
SetDefaultCheck(M, k) == k \in DOMAIN M

\* the load_config_file()? at the head of a method, and what follows it up
\* to the call of save_profiles
LoadStep(t) ==
    /\ t \in threads
    /\ pc[t] = "load"
    /\ \E readOk \in BOOLEAN :
        LET r == load_config_file(readOk)
            m == callee[t]
        IN  IF r.status = "Err"
            THEN Return(t, r) /\ UNCHANGED <<default_profile, callee, profiles>>
            ELSE IF m = "load_config_file"
            THEN Return(t, r) /\ UNCHANGED <<default_profile, callee, profiles>>
            ELSE IF m = "load_profiles"
            THEN \* inside SetDefaultCommand::execute
                 IF ~SetDefaultCheck(r.value.profiles, op[t].key)
                 THEN /\ Return(t, Err("Profile not found"))
                      /\ UNCHANGED <<default_profile, callee, profiles>>
                 ELSE /\ callee' = [callee EXCEPT ![t] = "set_default_profile"]
                      /\ default_profile' = op[t].key
                      /\ UNCHANGED <<pc, result, profiles>>
            ELSE LET a == AfterLoad(m, r.value, op[t].key, op[t].profile)
                 IN  IF a.status = "Err"
                     THEN Return(t, a) /\ UNCHANGED <<default_profile, callee, profiles>>
                     ELSE /\ profiles' = [profiles EXCEPT ![t] = a.value.profiles]
                          /\ pc' = [pc EXCEPT ![t] = "backup"]
                          /\ UNCHANGED <<default_profile, callee, result>>
    /\ UNCHANGED <<file, backup_file, CONFIG_LOCK, threads, op, before, calls, extVars>>

\* faulty variant: `let _ = self.backup();`, a failed copy does not stop the save
BackupStepIgnoreError(t) ==
    /\ t \in threads
    /\ pc[t] = "backup"
    /\ \E copyOk \in BOOLEAN :
         backup_file' = [backup_file EXCEPT ![t] = IF file.exists /\ copyOk THEN file ELSE @]
    /\ pc' = [pc EXCEPT ![t] = "lock"]
    /\ UNCHANGED <<file, default_profile, CONFIG_LOCK, threads, op, callee, profiles,
                   result, before, calls, extVars>>

\* Config::backup, the first statement of save_profiles
BackupStep(t) ==
    /\ t \in threads
    /\ pc[t] = "backup"
    /\ IF file.exists
       THEN \E copyOk \in BOOLEAN :
              IF copyOk
              THEN /\ backup_file' = [backup_file EXCEPT ![t] = file]
                   /\ pc' = [pc EXCEPT ![t] = "lock"]
                   /\ UNCHANGED result
              ELSE /\ Return(t, Err("IO Error"))
                   /\ UNCHANGED backup_file
       ELSE /\ pc' = [pc EXCEPT ![t] = "lock"]
            /\ UNCHANGED <<backup_file, result>>
    /\ UNCHANGED <<file, default_profile, CONFIG_LOCK, threads, op, callee, profiles,
                   before, calls, extVars>>

\* faulty variant: save_profiles without the lock
CanLockAlways(t) == TRUE

\* CONFIG_LOCK.lock(): blocks until the mutex is free.  No code panics while
\* holding it, so the mutex is never poisoned and lock() never errs.
CanLock(t) == CONFIG_LOCK = "free"

LockStep(t) ==
    /\ t \in threads
    /\ pc[t] = "lock"
    /\ CanLock(t)
    /\ CONFIG_LOCK' = t
    /\ pc' = [pc EXCEPT ![t] = "write"]
    /\ UNCHANGED <<file, backup_file, default_profile, threads, op, callee,
                   profiles, result, before, calls, extVars>>

\* faulty variant: the default is not carried into the saved ConfigFile
config_to_saveNoDefault(dp, M) == ConfigFile(None, M)

\* faulty variant: a default that names no saved profile is dropped
config_to_saveDropDangling(dp, M) == ConfigFile(IF dp \in DOMAIN M THEN dp ELSE None, M)

\* the ConfigFile that save_profiles serializes
config_to_save(dp, M) == ConfigFile(dp, M)

\* the rest of save_profiles: build config_to_save from self.default_profile,
\* serialize, fs::write, return (which drops the guard).  A failing
\* fs::write is taken to fail before it replaces the content.
WriteStep(t) ==
    /\ t \in threads
    /\ pc[t] = "write"
    /\ \E writeOk \in BOOLEAN :
         IF writeOk
         THEN /\ file' = FileOf(Serialize(config_to_save(default_profile, profiles[t])))
              /\ Return(t, Ok(ConfigFileDefault))
         ELSE /\ Return(t, Err("IO Error"))
              /\ UNCHANGED file
    /\ CONFIG_LOCK' = "free"
    /\ UNCHANGED <<backup_file, default_profile, threads, op, callee, profiles, before, calls,
                   extVars>>

(* ------------------------- the origin URL parser ----------------------- *)
\* a URL is a sequence of characters
GitAtPrefix == <<"g", "i", "t", "@">>

\* faulty variant: any URL of an http scheme is taken for an https:// one
HttpsPrefixLoose == <<"h", "t", "t", "p">>

HttpsPrefix == <<"h", "t", "t", "p", "s", ":", "/", "/">>

DotGit == <<".", "g", "i", "t">>

\* str::starts_with, str::ends_with
StartsWith(s, pre) == Len(s) >= Len(pre) /\ SubSeq(s, 1, Len(pre)) = pre
EndsWith(s, suf) == Len(s) >= Len(suf) /\ SubSeq(s, Len(s) - Len(suf) + 1, Len(s)) = suf

\* position of the first c in s, 0 when there is none
IndexOf(s, c) ==
    IF \E i \in DOMAIN s : s[i] = c THEN CHOOSE i \in DOMAIN s : s[i] = c /\ \A j \in 1..(i - 1) : s[j] # c
    ELSE 0

\* str::split(c).collect(): the pieces between the occurrences of c, empty
\* pieces included
RECURSIVE Split(_, _)
Split(s, c) ==
    LET i == IndexOf(s, c)
    IN  IF i = 0 THEN <<s>>
        ELSE <<SubSeq(s, 1, i - 1)>> \o Split(SubSeq(s, i + 1, Len(s)), c)

\* str::trim_end_matches(suf): the suffix is removed as often as it occurs
RECURSIVE trim_end_matches(_, _)
trim_end_matches(s, suf) ==
    IF EndsWith(s, suf) THEN trim_end_matches(SubSeq(s, 1, Len(s) - Len(suf)), suf) ELSE s

ParseOk2(user, repo) == [status |-> "Ok", error |-> "", user |-> user, repo |-> repo]
ParseErr(e) == [status |-> "Err", error |-> e, user |-> <<>>, repo |-> <<>>]

\* Git::parse_origin_url from the URL that `git remote get-url origin` printed
\* (execute_command has trimmed it)
ParseUrl(url) ==
    IF url = <<>> THEN ParseErr("Remote 'origin' URL is empty")
    ELSE IF StartsWith(url, GitAtPrefix) /\ Len(Split(url, ":")) = 2
    THEN LET path == trim_end_matches(Split(url, ":")[2], DotGit)
             segments == Split(path, "/")
         IN  IF Len(segments) < 2 THEN ParseErr("Invalid remote repository URL format")
             ELSE ParseOk2(segments[1], segments[2])
    ELSE IF StartsWith(url, HttpsPrefix) /\ Len(Split(url, "/")) >= 2
    THEN LET parts == Split(url, "/")
         IN  ParseOk2(parts[Len(parts) - 1], trim_end_matches(parts[Len(parts)], DotGit))
    ELSE ParseErr("Unsupported remote repository URL format")

\* Git::parse_origin_url: the git command fails when there is no origin
parse_origin_url(origin, gitOk) ==
    IF ~origin.exists \/ ~gitOk THEN ParseErr("No remote 'origin' found")
    ELSE ParseUrl(origin.url)

\* the parser is applied to the origin of the repository
Call_parse_origin_url ==
    /\ parsed.status = "none"
    /\ \E gitOk \in BOOLEAN : parsed' = parse_origin_url(git.origin, gitOk)
    /\ UNCHANGED <<file, backup_file, default_profile, CONFIG_LOCK, threads, pc, op,
                   callee, profiles, result, before, calls, bak_file, git, switched, ssh>>

\* pieces URLs are made of, and the schemes they begin with
UrlTokens == {<<"a">>, <<"b">>, <<":">>, <<"/">>, DotGit}
UrlPrefixes ==
    { GitAtPrefix, HttpsPrefix, <<>>,
      <<"s", "s", "h", ":", "/", "/">>, <<"h", "t", "t", "p", ":", "/", "/">>,
      <<"g", "i", "t", ":", "/", "/">>, <<"f", "t", "p", ":", "/", "/">> }

RECURSIVE UrlBodies(_)
UrlBodies(n) ==
    IF n = 0 THEN {<<>>}
    ELSE UrlBodies(n - 1) \cup {b \o t : b \in UrlBodies(n - 1), t \in UrlTokens}

(* ------------------------------- switch -------------------------------- *)
\* the characters of the SSH hosts of the profiles
HostChars(h) ==
    CASE h = "github.com" -> <<"g", "i", "t", "h", "u", "b", ".", "c", "o", "m">>
      [] h = "gitlab.com" -> <<"g", "i", "t", "l", "a", "b", ".", "c", "o", "m">>
      [] OTHER -> <<>>

\* faulty variant: the URL is written without its .git suffix
RemoteUrlBare(host, user, repo) == GitAtPrefix \o HostChars(host) \o <<":">> \o user \o <<"/">> \o repo

\* Git::set_remote: format!("git@{}:{}/{}.git", host, user, repo)
RemoteUrl(host, user, repo) ==
    GitAtPrefix \o HostChars(host) \o <<":">> \o user \o <<"/">> \o repo \o DotGit

\* faulty variant: a stored default is taken before the argument is looked at
ResolveDefaultFirst(M, arg, dp) ==
    IF DOMAIN M = {} THEN [how |-> "NoProfiles", key |-> None]
    ELSE IF dp # None /\ dp \in DOMAIN M THEN [how |-> "Default", key |-> dp]
    ELSE IF arg # None
    THEN IF arg \in DOMAIN M THEN [how |-> "Explicit", key |-> arg]
         ELSE [how |-> "NotFound", key |-> None]
    ELSE [how |-> "Interactive", key |-> None]

\* faulty variant: the stored default is used without the contains_key test
ResolveTrustDefault(M, arg, dp) ==
    IF DOMAIN M = {} THEN [how |-> "NoProfiles", key |-> None]
    ELSE IF arg # None
    THEN IF arg \in DOMAIN M THEN [how |-> "Explicit", key |-> arg]
         ELSE [how |-> "NotFound", key |-> None]
    ELSE IF dp # None THEN [how |-> "Default", key |-> dp]
    ELSE [how |-> "Interactive", key |-> None]

\* SwitchCommand::execute, from the loaded map to the way the profile is
\* chosen: no profiles at all, the argument, the default, or the prompt
Resolve(M, arg, dp) ==
    IF DOMAIN M = {} THEN [how |-> "NoProfiles", key |-> None]
    ELSE IF arg # None
    THEN IF arg \in DOMAIN M THEN [how |-> "Explicit", key |-> arg]
         ELSE [how |-> "NotFound", key |-> None]
    ELSE IF dp # None /\ dp \in DOMAIN M THEN [how |-> "Default", key |-> dp]
    ELSE [how |-> "Interactive", key |-> None]

Call_SwitchCommand(t) ==
    \E a \in ProfileKeys \cup {None} :
        /\ AllIdle
        /\ Begin(t, [NoOp EXCEPT !.name = "SwitchCommand", !.arg = a],
                 "execute", "switch_load", EmptyMap)
        /\ switched' = [NoSwitch EXCEPT !.git = git]
        /\ parsed' = NoParse
        /\ UNCHANGED <<file, default_profile, CONFIG_LOCK, threads, bak_file, git, ssh>>

\* the profile named k is looked up and perform_switch begins; a name that
\* is not in the map is reported and the command returns Ok
Chosen(t, M, k, byDefault, prompt) ==
    IF k \in DOMAIN M
    THEN /\ switched' = [switched EXCEPT !.applied = k, !.by_default = byDefault,
                                          !.prompted = prompt]
         /\ op' = [op EXCEPT ![t].key = k, ![t].profile = M[k]]
         /\ pc' = [pc EXCEPT ![t] = "set_name"]
         /\ UNCHANGED result
    ELSE /\ switched' = [switched EXCEPT !.prompted = prompt]
         /\ Return(t, Ok(ConfigFileDefault))
         /\ UNCHANGED op

\* SwitchCommand::execute up to the call of perform_switch
SwitchLoadStep(t) ==
    /\ t \in threads
    /\ pc[t] = "switch_load"
    /\ \E readOk \in BOOLEAN, promptOk \in BOOLEAN, sel \in ProfileKeys :
        LET r == load_config_file(readOk)
            M == r.value.profiles
            c == Resolve(M, op[t].arg, get_default_profile)
        IN  IF r.status = "Err" THEN Return(t, r) /\ UNCHANGED <<op, switched>>
            ELSE IF c.how \in {"NoProfiles", "NotFound"}
            THEN Return(t, Ok(ConfigFileDefault)) /\ UNCHANGED <<op, switched>>
            ELSE IF c.how = "Explicit" THEN Chosen(t, M, c.key, FALSE, FALSE)
            ELSE IF c.how = "Default" THEN Chosen(t, M, c.key, TRUE, FALSE)
            ELSE IF ~promptOk
            THEN /\ switched' = [switched EXCEPT !.prompted = TRUE]
                 /\ Return(t, Err("Interactive Input Error"))
                 /\ UNCHANGED op
            ELSE sel \in DOMAIN M /\ Chosen(t, M, sel, FALSE, TRUE)
    /\ UNCHANGED <<file, backup_file, default_profile, CONFIG_LOCK, threads, callee,
                   profiles, before, calls, bak_file, git, parsed, ssh>>

\* Git::set_config, first command: git config user.name
SetNameStep(t) ==
    /\ t \in threads
    /\ pc[t] = "set_name"
    /\ \E gitOk \in BOOLEAN :
        IF gitOk
        THEN /\ git' = [git EXCEPT !.user_name = op[t].profile.name]
             /\ pc' = [pc EXCEPT ![t] = "set_email"]
             /\ UNCHANGED result
        ELSE Return(t, Err("Git Command Error")) /\ UNCHANGED git
    /\ UNCHANGED <<file, backup_file, default_profile, CONFIG_LOCK, threads, op, callee,
                   profiles, before, calls, bak_file, switched, parsed, ssh>>

\* Git::set_config, second command: git config user.email
SetEmailStep(t) ==
    /\ t \in threads
    /\ pc[t] = "set_email"
    /\ \E gitOk \in BOOLEAN :
        IF gitOk
        THEN /\ git' = [git EXCEPT !.user_email = op[t].profile.email]
             /\ pc' = [pc EXCEPT ![t] = "parse_origin"]
             /\ UNCHANGED result
        ELSE Return(t, Err("Git Command Error")) /\ UNCHANGED git
    /\ UNCHANGED <<file, backup_file, default_profile, CONFIG_LOCK, threads, op, callee,
                   profiles, before, calls, bak_file, switched, parsed, ssh>>

\* faulty variant: `git.parse_origin_url()?`, a failed parse fails the switch
OnParseStrict(pr, host) ==
    IF pr.status = "Err" THEN "fail" ELSE IF host # "" THEN "set_remote" ELSE "done"

\* the match on parse_origin_url() in perform_switch: an Err is only warned
\* about, an Ok leads to set_remote when the profile has an SSH host
OnParse(pr, host) ==
    IF pr.status = "Err" THEN "warn" ELSE IF host # "" THEN "set_remote" ELSE "done"

ParseOriginStep(t) ==
    /\ t \in threads
    /\ pc[t] = "parse_origin"
    /\ \E gitOk \in BOOLEAN :
        LET pr == parse_origin_url(git.origin, gitOk)
            todo == OnParse(pr, op[t].profile.ssh_host)
        IN  /\ parsed' = pr
            /\ IF todo = "set_remote"
               THEN pc' = [pc EXCEPT ![t] = "set_remote"] /\ UNCHANGED result
               ELSE IF todo = "fail" THEN Return(t, Err("Git Command Error"))
               ELSE Return(t, Ok(ConfigFileDefault))
    /\ UNCHANGED <<file, backup_file, default_profile, CONFIG_LOCK, threads, op, callee,
                   profiles, before, calls, bak_file, git, switched, ssh>>

\* Git::set_remote: git remote set-url origin <url>
SetRemoteStep(t) ==
    /\ t \in threads
    /\ pc[t] = "set_remote"
    /\ \E gitOk \in BOOLEAN :
        IF gitOk /\ git.origin.exists
        THEN /\ git' = [git EXCEPT !.origin =
                          OriginOf(RemoteUrl(op[t].profile.ssh_host, parsed.user, parsed.repo))]
             /\ Return(t, Ok(ConfigFileDefault))
        ELSE Return(t, Err("Git Command Error")) /\ UNCHANGED git
    /\ UNCHANGED <<file, backup_file, default_profile, CONFIG_LOCK, threads, op, callee,
                   profiles, before, calls, bak_file, switched, parsed, ssh>>

(* ------------------------- the SSH config parser ----------------------- *)
\* a line is a sequence of characters; char::is_whitespace on those in use
IsSpace(c) == c \in {" ", "\t"}

\* str::trim
RECURSIVE trim(_)
trim(s) ==
    IF s = <<>> THEN s
    ELSE IF IsSpace(s[1]) THEN trim(Tail(s))
    ELSE IF IsSpace(s[Len(s)]) THEN trim(SubSeq(s, 1, Len(s) - 1))
    ELSE s

\* str::split_whitespace().collect(): the maximal runs without whitespace
RECURSIVE split_whitespace(_)
split_whitespace(s) ==
    LET l == trim(s)
        sp == {i \in DOMAIN l : IsSpace(l[i])}
        i == IF sp = {} THEN 0 ELSE CHOOSE x \in sp : \A y \in sp : x <= y
    IN  IF l = <<>> THEN <<>>
        ELSE IF i = 0 THEN <<l>>
        ELSE <<SubSeq(l, 1, i - 1)>> \o split_whitespace(SubSeq(l, i + 1, Len(l)))

\* line.split_whitespace().nth(1).unwrap_or("")
SecondToken(line) ==
    IF Len(split_whitespace(line)) >= 2 THEN split_whitespace(line)[2] ELSE <<>>

HostKw == <<"H", "o", "s", "t", " ">>
HostNameKw == <<"H", "o", "s", "t", "N", "a", "m", "e", " ">>
UserKw == <<"U", "s", "e", "r", " ">>
PortKw == <<"P", "o", "r", "t", " ">>
IdentityFileKw == <<"I", "d", "e", "n", "t", "i", "t", "y", "F", "i", "l", "e", " ">>

\* struct SshHost; add and update have no identity_file, it stays empty there
SshHost(name) ==
    [name |-> name, hostname |-> <<>>, user |-> <<>>, port |-> <<>>, identity_file |-> <<>>]

\* faulty variant: a field that is already set is not set again
SetFieldFirstWins(host, l, variant) ==
    IF StartsWith(l, HostNameKw)
    THEN [host EXCEPT !.hostname = IF @ = <<>> THEN SecondToken(l) ELSE @]
    ELSE IF StartsWith(l, UserKw)
    THEN [host EXCEPT !.user = IF @ = <<>> THEN SecondToken(l) ELSE @]
    ELSE IF StartsWith(l, PortKw)
    THEN [host EXCEPT !.port = IF @ = <<>> THEN SecondToken(l) ELSE @]
    ELSE IF variant = "list_ssh" /\ StartsWith(l, IdentityFileKw)
    THEN [host EXCEPT !.identity_file = IF @ = <<>> THEN SecondToken(l) ELSE @]
    ELSE host

\* the field lines inside an open entry
SetField(host, l, variant) ==
    IF StartsWith(l, HostNameKw) THEN [host EXCEPT !.hostname = SecondToken(l)]
    ELSE IF StartsWith(l, UserKw) THEN [host EXCEPT !.user = SecondToken(l)]
    ELSE IF StartsWith(l, PortKw) THEN [host EXCEPT !.port = SecondToken(l)]
    ELSE IF variant = "list_ssh" /\ StartsWith(l, IdentityFileKw)
    THEN [host EXCEPT !.identity_file = SecondToken(l)]
    ELSE host

\* faulty variant: a Host line replaces the open entry without appending it
ParseLineNoClose(hosts, cur, line, variant) ==
    LET l == trim(line)
    IN  IF StartsWith(l, HostKw)
        THEN [hosts |-> hosts, current_host |-> <<SshHost(SecondToken(l))>>]
        ELSE IF cur # <<>>
        THEN [hosts |-> hosts, current_host |-> <<SetField(cur[1], l, variant)>>]
        ELSE [hosts |-> hosts, current_host |-> cur]

\* the body of the loop over content.lines()
ParseLine(hosts, cur, line, variant) ==
    LET l == trim(line)
    IN  IF StartsWith(l, HostKw)
        THEN [hosts |-> hosts \o cur, current_host |-> <<SshHost(SecondToken(l))>>]
        ELSE IF cur # <<>>
        THEN [hosts |-> hosts, current_host |-> <<SetField(cur[1], l, variant)>>]
        ELSE [hosts |-> hosts, current_host |-> cur]

storeVars == <<file, backup_file, default_profile, CONFIG_LOCK, threads, pc, op,
               callee, profiles, result, before, calls>>

\* faulty variant: `fs::read_to_string(&ssh_config)?`
OnReadStrict(exists, readOk) == IF exists /\ readOk THEN "lines" ELSE "failed"

\* `if let Ok(content) = fs::read_to_string(&ssh_config)`: a file that is
\* missing or cannot be read gives no hosts, the loop is not entered
OnRead(exists, readOk) == IF exists /\ readOk THEN "lines" ELSE "no_content"

\* get_ssh_config_path()? and the read of the file
SshReadStep ==
    /\ ssh.state = "start"
    /\ \E homeOk \in BOOLEAN, readOk \in BOOLEAN :
        IF ~homeOk
        THEN ssh' = [ssh EXCEPT !.state = "failed", !.error = "Could not find home directory."]
        ELSE LET to == OnRead(ssh.exists, readOk)
             IN  ssh' = [ssh EXCEPT !.state = to,
                                    !.error = IF to = "failed" THEN "IO Error" ELSE ""]
    /\ UNCHANGED <<storeVars, bak_file, git, switched, parsed>>

\* one turn of the loop
SshLineStep ==
    /\ ssh.state = "lines"
    /\ ssh.pos < Len(ssh.content)
    /\ LET r == ParseLine(ssh.hosts, ssh.current_host, ssh.content[ssh.pos + 1], ssh.variant)
       IN  ssh' = [ssh EXCEPT !.pos = ssh.pos + 1, !.hosts = r.hosts,
                              !.current_host = r.current_host]
    /\ UNCHANGED <<storeVars, bak_file, git, switched, parsed>>

\* after the loop: the entry still open is appended
SshEndStep ==
    /\ ssh.state = "lines"
    /\ ssh.pos = Len(ssh.content)
    /\ ssh' = [ssh EXCEPT !.state = "done", !.hosts = ssh.hosts \o ssh.current_host,
                          !.current_host = <<>>]
    /\ UNCHANGED <<storeVars, bak_file, git, switched, parsed>>

\* what the prompts of add-ssh are answered with: an alias, a host name, a
\* user, a port (the default is "22") and an identity file, one word or two
AddSshAnswers ==
    [host : {<<"c">>, <<"c", " ", "d">>},
     hostname : {<<"h">>},
     user : {<<"u">>, <<"u", " ", "v">>},
     port : {<<"2", "2">>},
     identity_file : {<<"f">>, <<"e", " ", "f">>}]

Indent == <<" ", " ", " ", " ">>

\* the lines of format!("\nHost {}\n    HostName {}\n    User {}\n    Port {}\n
\* IdentityFile {}\n") after the line break it begins with
SshBlock(e) ==
    << SubSeq(HostKw, 1, 4) \o <<" ">> \o e.host,
       Indent \o HostNameKw \o e.hostname,
       Indent \o UserKw \o e.user,
       Indent \o PortKw \o e.port,
       Indent \o IdentityFileKw \o e.identity_file >>

\* AddSshCommand::execute: the entry is appended to the file, which is
\* created when missing; the leading line break ends the last line of a file
\* that has no final line break and makes an empty line otherwise
AddSshStep ==
    /\ ssh.state = "start"
    /\ ssh.added = <<>>
    /\ ssh.add_error = ""
    /\ \E homeOk \in BOOLEAN, promptOk \in BOOLEAN, writeOk \in BOOLEAN,
          finalBreak \in BOOLEAN, e \in AddSshAnswers :
        IF ~homeOk THEN ssh' = [ssh EXCEPT !.add_error = "Could not find home directory."]
        ELSE IF ~promptOk THEN ssh' = [ssh EXCEPT !.add_error = "Interactive Input Error"]
        ELSE IF ~writeOk THEN ssh' = [ssh EXCEPT !.add_error = "IO Error"]
        ELSE ssh' = [ssh EXCEPT
                 !.exists = TRUE,
                 !.content = (IF ssh.content = <<>> \/ finalBreak THEN ssh.content \o << <<>> >>
                              ELSE ssh.content) \o SshBlock(e),
                 !.added = <<e>>]
    /\ UNCHANGED <<storeVars, bak_file, git, switched, parsed>>

\* lines a configuration is made of: "Host a", "Host a b", "  Host b",
\* "host c", "Host", "Host<TAB>d", "HostName h", "HostName g", "  User u", "Port 2",
\* "IdentityFile f", ""
SshLines ==
    { <<"H", "o", "s", "t", " ", "a">>,
      <<"H", "o", "s", "t", " ", "a", " ", "b">>,
      <<" ", " ", "H", "o", "s", "t", " ", "b">>,
      <<"h", "o", "s", "t", " ", "c">>,
      <<"H", "o", "s", "t">>,
      <<"H", "o", "s", "t", "\t", "d">>,
      <<"H", "o", "s", "t", "N", "a", "m", "e", " ", "h">>,
      <<"H", "o", "s", "t", "N", "a", "m", "e", " ", "g">>,
      <<" ", " ", "U", "s", "e", "r", " ", "u">>,
      <<"P", "o", "r", "t", " ", "2">>,
      <<"I", "d", "e", "n", "t", "i", "t", "y", "F", "i", "l", "e", " ", "f">>,
      <<>> }

\* the texts of up to n lines
SshTexts(n) == UNION {[1..k -> SshLines] : k \in 0..n}

(* ----------------------------- the commands ---------------------------- *)
\* what the prompts of add and update may be answered with: the profiles of
\* the tests, one with an email without '@', one with an empty SSH host
InvalidEmail == "invalid-email"
CmdProfiles ==
    Profiles \cup {[Profile(1) EXCEPT !.email = InvalidEmail],
                   [Profile(1) EXCEPT !.ssh_host = ""]}

\* faulty variant: no test at all
validate_emailAlways(email) == "Ok"

\* utils::validate_email: the only test made is email.contains('@')
validate_email(email) ==
    IF email \in {Emails[i] : i \in DOMAIN Emails} THEN "Ok" ELSE "Validation Error"

\* utils::validate_ssh_host
validate_ssh_host(host) == IF host = "" THEN "Validation Error" ELSE "Ok"

\* AddCommand::execute: the profile argument is required
Call_AddCommand(t) ==
    \E k \in ProfileKeys, p \in CmdProfiles :
        /\ AllIdle
        /\ Begin(t, [NoOp EXCEPT !.name = "AddCommand", !.key = k, !.profile = p],
                 "execute", "cmd_input", EmptyMap)
        /\ UNCHANGED <<file, default_profile, CONFIG_LOCK, threads, extVars>>

\* UpdateCommand::execute: without an argument the profile is chosen at a prompt
Call_UpdateCommand(t) ==
    \E a \in ProfileKeys \cup {None}, p \in CmdProfiles :
        /\ AllIdle
        /\ Begin(t, [NoOp EXCEPT !.name = "UpdateCommand", !.arg = a, !.profile = p],
                 "execute", "cmd_load", EmptyMap)
        /\ UNCHANGED <<file, default_profile, CONFIG_LOCK, threads, extVars>>

\* DeleteCommand::execute
Call_DeleteCommand(t) ==
    \E a \in ProfileKeys \cup {None} :
        /\ AllIdle
        /\ Begin(t, [NoOp EXCEPT !.name = "DeleteCommand", !.arg = a],
                 "execute", "cmd_load", EmptyMap)
        /\ UNCHANGED <<file, default_profile, CONFIG_LOCK, threads, extVars>>

\* the head of update and delete: load_profiles, the "No profiles found" and
\* "not found" returns (both Ok), and the choice of the profile
CmdLoadStep(t) ==
    /\ t \in threads
    /\ pc[t] = "cmd_load"
    /\ \E readOk \in BOOLEAN, promptOk \in BOOLEAN, sel \in ProfileKeys :
        LET r == load_config_file(readOk)
            M == r.value.profiles
            next == IF op[t].name = "UpdateCommand" THEN "cmd_input" ELSE "cmd_backup"
        IN  IF r.status = "Err" THEN Return(t, r) /\ UNCHANGED op
            ELSE IF DOMAIN M = {} THEN Return(t, Ok(ConfigFileDefault)) /\ UNCHANGED op
            ELSE IF op[t].arg = None
            THEN IF ~promptOk
                 THEN Return(t, Err("Interactive Input Error")) /\ UNCHANGED op
                 ELSE /\ sel \in DOMAIN M
                      /\ op' = [op EXCEPT ![t].key = sel]
                      /\ pc' = [pc EXCEPT ![t] = next]
                      /\ UNCHANGED result
            ELSE IF op[t].arg \notin DOMAIN M
            THEN Return(t, Ok(ConfigFileDefault)) /\ UNCHANGED op
            ELSE /\ op' = [op EXCEPT ![t].key = op[t].arg]
                 /\ pc' = [pc EXCEPT ![t] = next]
                 /\ UNCHANGED result
    /\ UNCHANGED <<file, backup_file, default_profile, CONFIG_LOCK, threads, callee,
                   profiles, before, calls, extVars>>

\* the prompts of add and update, then validate_email and validate_ssh_host
InputStep(t) ==
    /\ t \in threads
    /\ pc[t] = "cmd_input"
    /\ \E promptOk \in BOOLEAN :
        IF ~promptOk THEN Return(t, Err("Interactive Input Error"))
        ELSE IF validate_email(op[t].profile.email) # "Ok"
        THEN Return(t, Err(validate_email(op[t].profile.email)))
        ELSE IF validate_ssh_host(op[t].profile.ssh_host) # "Ok"
        THEN Return(t, Err(validate_ssh_host(op[t].profile.ssh_host)))
        ELSE pc' = [pc EXCEPT ![t] = "cmd_backup"] /\ UNCHANGED result
    /\ UNCHANGED <<file, backup_file, default_profile, CONFIG_LOCK, threads, op, callee,
                   profiles, before, calls, extVars>>

\* the Config method a command ends with
MethodOf(name) ==
    CASE name = "AddCommand" -> "add_profile"
      [] name = "UpdateCommand" -> "update_profile"
      [] name = "DeleteCommand" -> "delete_profile"

\* utils::backup_config_file, then the call of the Config method
CmdBackupStep(t) ==
    /\ t \in threads
    /\ pc[t] = "cmd_backup"
    /\ \E copyOk \in BOOLEAN :
        IF file.exists /\ ~copyOk
        THEN Return(t, Err("IO Error")) /\ UNCHANGED <<bak_file, callee>>
        ELSE /\ bak_file' = IF file.exists THEN file ELSE bak_file
             /\ callee' = [callee EXCEPT ![t] = MethodOf(op[t].name)]
             /\ pc' = [pc EXCEPT ![t] = "load"]
             /\ UNCHANGED result
    /\ UNCHANGED <<file, backup_file, default_profile, CONFIG_LOCK, threads, op,
                   profiles, before, calls, git, switched, parsed, ssh>>

\* main builds its Config before it runs the one command of the invocation
Fresh(t) == op[t].name = "none"

(* --------------------------- specification ----------------------------- *)
\* files a user may have before the first run
InitFiles ==
    { NoFile,
      FileOf(<<>>),
      FileOf(<<JunkLine>>),
      FileOf(<<DefaultLine(KeyNames[1]), TableLine(KeyNames[1], Profile(1))>>),
      FileOf(<<TableLine(KeyNames[1], Profile(1)), TableLine(KeyNames[2], Profile(2))>>) }

\* a Config just built from the file, and nothing called yet
InitCommon ==
    /\ backup_file = [t \in Threads |-> NoFile]
    /\ default_profile = NewDefault(TRUE)
    /\ CONFIG_LOCK = "free"
    /\ pc = [t \in Threads |-> "idle"]
    /\ op = [t \in Threads |-> NoOp]
    /\ callee = [t \in Threads |-> "none"]
    /\ profiles = [t \in Threads |-> EmptyMap]
    /\ result = [t \in Threads |-> NoResult]
    /\ before = [file |-> file, default_profile |-> default_profile]
    /\ calls = 0
    /\ ExtInit

\* one thread: the commands of the CLI, one after the other
Init ==
    /\ file \in InitFiles /\ threads = {"t1"} /\ git = NoGit /\ ssh = NoSsh
    /\ InitCommon

\* several threads of one process sharing the Config
InitConc ==
    /\ file \in InitFiles /\ threads = Threads /\ git = NoGit /\ ssh = NoSsh
    /\ InitCommon

Next ==
    \/ ConfigNew
    \/ \E t \in Threads : Call_load_config_file(t)
    \/ \E t \in Threads : Call_save_profiles(t)
    \/ \E t \in Threads : Call_add_profile(t)
    \/ \E t \in Threads : Call_update_profile(t)
    \/ \E t \in Threads : Call_delete_profile(t)
    \/ \E t \in Threads : Call_set_default_profile(t)
    \/ \E t \in Threads : Call_SetDefaultCommand(t)
    \/ \E t \in Threads : Call_UnsetDefaultCommand(t)
    \/ \E t \in Threads : LoadStep(t)
    \/ \E t \in Threads : BackupStep(t)
    \/ \E t \in Threads : LockStep(t)
    \/ \E t \in Threads : WriteStep(t)

\* threads sharing one Config hold &Config: only the &self methods can be
\* called, and nobody rebuilds the Config meanwhile
NextConc ==
    \/ \E t \in Threads : Call_load_config_file(t)
    \/ \E t \in Threads : Call_save_profiles(t)
    \/ \E t \in Threads : Call_add_profile(t)
    \/ \E t \in Threads : Call_update_profile(t)
    \/ \E t \in Threads : Call_delete_profile(t)
    \/ \E t \in Threads : LoadStep(t)
    \/ \E t \in Threads : BackupStep(t)
    \/ \E t \in Threads : LockStep(t)
    \/ \E t \in Threads : WriteStep(t)

\* the store before the first command: no file, or a file without content
EmptyStores == {NoFile, FileOf(<<>>)}

InitCmd ==
    /\ file \in EmptyStores /\ threads = {"t1"} /\ git = NoGit /\ ssh = NoSsh
    /\ InitCommon

\* invocations of the program, one command each
NextCmd ==
    \/ ConfigNew
    \/ \E t \in Threads : Fresh(t) /\ Call_AddCommand(t)
    \/ \E t \in Threads : Fresh(t) /\ Call_UpdateCommand(t)
    \/ \E t \in Threads : Fresh(t) /\ Call_DeleteCommand(t)
    \/ \E t \in Threads : Fresh(t) /\ Call_SetDefaultCommand(t)
    \/ \E t \in Threads : Fresh(t) /\ Call_UnsetDefaultCommand(t)
    \/ \E t \in Threads : CmdLoadStep(t)
    \/ \E t \in Threads : InputStep(t)
    \/ \E t \in Threads : CmdBackupStep(t)
    \/ \E t \in Threads : LoadStep(t)
    \/ \E t \in Threads : BackupStep(t)
    \/ \E t \in Threads : LockStep(t)
    \/ \E t \in Threads : WriteStep(t)

\* owners and repositories set_remote is called with: a, and b, b.git
Owners == {<<"a">>}
Repos == {<<"b">>, <<"b">> \o DotGit}

\* the URLs set_remote writes for them
WrittenUrls ==
    {RemoteUrl(SshHosts[i], o, r) : i \in DOMAIN SshHosts, o \in Owners, r \in Repos}

\* repositories with any origin URL, or none
Urls == {pre \o b : pre \in UrlPrefixes, b \in UrlBodies(MaxTokens)} \cup WrittenUrls

InitUrl ==
    /\ file = NoFile /\ threads = {"t1"} /\ ssh = NoSsh
    /\ git \in {[NoGit EXCEPT !.origin = o] : o \in {NoOrigin} \cup {OriginOf(u) : u \in Urls}}
    /\ InitCommon

NextUrl == Call_parse_origin_url

\* stores a switch may find: none, empty, unparseable, with and without a
\* default, with a default that names no profile, with a profile without
\* SSH host
SwitchFiles ==
    { NoFile, FileOf(<<>>), FileOf(<<JunkLine>>),
      FileOf(<<DefaultLine(KeyNames[1]), TableLine(KeyNames[1], Profile(1)),
               TableLine(KeyNames[2], Profile(2))>>),
      FileOf(<<TableLine(KeyNames[1], Profile(1)), TableLine(KeyNames[2], Profile(2))>>),
      FileOf(<<DefaultLine(KeyNames[2]), TableLine(KeyNames[1], Profile(1))>>),
      FileOf(<<DefaultLine(KeyNames[1]), ProfilesHeader>>),
      FileOf(<<DefaultLine(KeyNames[1]),
               TableLine(KeyNames[1], [Profile(1) EXCEPT !.ssh_host = ""])>>) }

\* origins of the repository: none, git@h:a/b.git, https://h/a/b.git,
\* ssh://h/a/b, git@h
SwitchOrigins ==
    { NoOrigin,
      OriginOf(GitAtPrefix \o <<"h", ":", "a", "/", "b">> \o DotGit),
      OriginOf(HttpsPrefix \o <<"h", "/", "a", "/", "b">> \o DotGit),
      OriginOf(<<"s", "s", "h", ":", "/", "/", "h", "/", "a", "/", "b">>),
      OriginOf(GitAtPrefix \o <<"h">>) }

InitSwitch ==
    /\ file \in SwitchFiles /\ threads = {"t1"} /\ ssh = NoSsh
    /\ git \in {[user_name |-> "Old User", user_email |-> "old@example.com", origin |-> o] :
                  o \in SwitchOrigins}
    /\ InitCommon

NextSwitch ==
    \/ ConfigNew
    \/ \E t \in Threads : Fresh(t) /\ Call_SwitchCommand(t)
    \/ \E t \in Threads : SwitchLoadStep(t)
    \/ \E t \in Threads : SetNameStep(t)
    \/ \E t \in Threads : SetEmailStep(t)
    \/ \E t \in Threads : ParseOriginStep(t)
    \/ \E t \in Threads : SetRemoteStep(t)

\* the commands that read ~/.ssh/config, on any text or without the file
SshInputs ==
    {[NoSsh EXCEPT !.variant = v] : v \in {"list_ssh", "add"}}
    \cup {[NoSsh EXCEPT !.exists = TRUE, !.content = c, !.variant = v] :
            c \in SshTexts(MaxLines), v \in {"list_ssh", "add"}}

InitSsh ==
    /\ file = NoFile /\ threads = {"t1"} /\ git = NoGit
    /\ ssh \in SshInputs
    /\ InitCommon

NextSsh ==
    \/ SshReadStep
    \/ SshLineStep
    \/ SshEndStep

\* add-ssh on a configuration of up to MaxPrior lines, then a parse of it
InitAddSsh ==
    /\ file = NoFile /\ threads = {"t1"} /\ git = NoGit
    /\ ssh \in {[NoSsh EXCEPT !.variant = v] : v \in {"list_ssh", "add"}}
            \cup {[NoSsh EXCEPT !.exists = TRUE, !.content = c, !.variant = v] :
                    c \in SshTexts(MaxPrior), v \in {"list_ssh", "add"}}
    /\ InitCommon

NextAddSsh ==
    \/ AddSshStep
    \/ SshReadStep
    \/ SshLineStep
    \/ SshEndStep

Spec == Init /\ [][Next]_vars
SpecSsh == InitSsh /\ [][NextSsh]_vars
SpecAddSsh == InitAddSsh /\ [][NextAddSsh]_vars
SpecSwitch == InitSwitch /\ [][NextSwitch]_vars
SpecUrl == InitUrl /\ [][NextUrl]_vars
SpecCmd == InitCmd /\ [][NextCmd]_vars
SpecConc == InitConc /\ [][NextConc]_vars

TypeOK ==
    /\ file.exists \in BOOLEAN
    /\ default_profile \in ProfileKeys \cup {None}
    /\ CONFIG_LOCK \in Threads \cup {"free"}
    /\ \A t \in Threads : pc[t] \in {"idle", "load", "backup", "lock", "write",
                                    "cmd_load", "cmd_input", "cmd_backup", "switch_load",
                                    "set_name", "set_email", "parse_origin", "set_remote"}
    /\ \A t \in Threads : profiles[t] \in ProfileMaps

(* ------------------------------ properties ----------------------------- *)
\* thread t has returned from a call of `name`
Returned(t, name) == pc[t] = "idle" /\ op[t].name = name /\ result[t].status # "none"

\* thread t has returned Ok from a call that went through save_profiles
Saved(t) ==
    /\ pc[t] = "idle"
    /\ result[t].status = "Ok"
    /\ op[t].name \notin {"none", "load_config_file"}

\* the profile map and the default marker a file holds
StoredMap(f) == IF f.exists /\ ParseOk(f.text) THEN Parse(f.text).profiles ELSE EmptyMap
StoredDefault(f) == IF f.exists /\ ParseOk(f.text) THEN Parse(f.text).default_profile ELSE None

\* errors of the environment and of the load that any method passes on
LoadErrors == {"Cannot read configuration file", "TOML Parsing Error"}
IoErrors == {"Cannot read configuration file", "IO Error"}

\* C1: update_profile(k, p) with k not in the stored profile map returns an
\* error (the not-found error whenever the file loads) and leaves the backing
\* file exactly as it was before the call.
C1_UpdateAbsentFails ==
    \A t \in threads :
        (Returned(t, "update_profile") /\ op[t].key \notin DOMAIN StoredMap(before.file))
        => /\ result[t].status = "Err"
           /\ result[t].error \in {"Profile does not exist"} \cup LoadErrors
           /\ file = before.file

C1_Witness ==
    /\ Returned("t1", "update_profile")
    /\ op["t1"].key \notin DOMAIN StoredMap(before.file)
    /\ DOMAIN StoredMap(before.file) # {}
    /\ StoredDefault(before.file) # None
    /\ result["t1"].error = "Profile does not exist"

\* C2: add_profile is an upsert: it never returns a duplicate-key or not-found
\* error, also when the key is already stored, and after it succeeds a load
\* returns a map in which the key maps to the new profile, the key has exactly
\* one table in the file, and every other key keeps its profile.
C2_AddIsUpsert ==
    \A t \in threads :
        Returned(t, "add_profile")
        => /\ result[t].status = "Err" => result[t].error \in LoadErrors \cup IoErrors
           /\ result[t].status = "Ok" =>
                LET l == load_config_file(TRUE)
                    k == op[t].key
                IN  /\ l.status = "Ok"
                    /\ DOMAIN l.value.profiles = DOMAIN StoredMap(before.file) \cup {k}
                    /\ l.value.profiles[k] = op[t].profile
                    /\ \A x \in DOMAIN StoredMap(before.file) \ {k} :
                          l.value.profiles[x] = StoredMap(before.file)[x]
                    /\ Cardinality({i \in LinesOf(file.text, "table") : file.text[i].key = k}) = 1

\* the second add_profile of a key, with another profile, has succeeded
C2_Witness ==
    /\ Returned("t1", "add_profile")
    /\ result["t1"].status = "Ok"
    /\ calls >= 2
    /\ op["t1"].key \in DOMAIN StoredMap(before.file)
    /\ StoredMap(before.file)[op["t1"].key] # op["t1"].profile
    /\ Cardinality(DOMAIN StoredMap(file)) = 2

\* C3: delete_profile(k) with k absent fails with the not-found error (or the
\* load's error) and writes nothing; with k present it succeeds unless the
\* environment fails, and a load then returns the previous map without k.
C3_Delete ==
    \A t \in threads :
        Returned(t, "delete_profile")
        => LET k == op[t].key
               M == StoredMap(before.file)
           IN  IF k \notin DOMAIN M
               THEN /\ result[t].status = "Err"
                    /\ result[t].error \in {"Profile does not exist"} \cup LoadErrors
                    /\ file = before.file
               ELSE /\ result[t].status = "Err" =>
                          result[t].error \in IoErrors /\ file = before.file
                    /\ result[t].status = "Ok" =>
                          /\ load_config_file(TRUE).status = "Ok"
                          /\ DOMAIN load_config_file(TRUE).value.profiles = DOMAIN M \ {k}
                          /\ \A x \in DOMAIN M \ {k} :
                                load_config_file(TRUE).value.profiles[x] = M[x]

C3_Witness ==
    /\ Returned("t1", "delete_profile")
    /\ result["t1"].status = "Ok"
    /\ Cardinality(DOMAIN StoredMap(before.file)) = 2
    /\ DOMAIN StoredMap(file) = DOMAIN StoredMap(before.file) \ {op["t1"].key}

\* C4: when a save is made while the default profile is unset, the written
\* text has no default_profile line at all and loading it gives no default.
C4_UnsetDefaultOmitted ==
    \A t \in threads :
        (Saved(t) /\ get_default_profile = None)
        => /\ LinesOf(file.text, "default_profile") = {}
           /\ load_config_file(TRUE).status = "Ok"
           /\ load_config_file(TRUE).value.default_profile = None

\* a file that had a default line was saved with the default unset
C4_Witness ==
    /\ Saved("t1")
    /\ get_default_profile = None
    /\ LinesOf(before.file.text, "default_profile") # {}
    /\ DOMAIN StoredMap(file) # {}

\* C5: after a save succeeds, a load returns exactly the saved map and the
\* Config's default marker; nothing of the earlier file survives.
C5_SaveLoadIdentity ==
    \A t \in threads :
        Saved(t)
        => load_config_file(TRUE) = Ok(ConfigFile(get_default_profile, profiles[t]))

\* save_profiles(M) replaced a file that held a key M does not have
C5_Witness ==
    /\ Returned("t1", "save_profiles")
    /\ result["t1"].status = "Ok"
    /\ get_default_profile # None
    /\ DOMAIN profiles["t1"] # {}
    /\ DOMAIN StoredMap(before.file) \ DOMAIN profiles["t1"] # {}
    /\ StoredDefault(before.file) # get_default_profile

\* C6: a save that has got past its backup step holds a complete copy of the
\* existing file before anything is written (and no copy when there is no
\* file); a save whose copy failed has returned an error and the file is as
\* before; a save on a missing path makes no backup and writes the file.
C6_BackupBeforeWrite ==
    \A t \in threads :
        /\ pc[t] \in {"lock", "write"} =>
              /\ file = before.file
              /\ backup_file[t] = IF file.exists THEN file ELSE NoFile
        /\ (Saved(t) /\ before.file.exists) => backup_file[t] = before.file
        /\ (Saved(t) /\ ~before.file.exists) => ~backup_file[t].exists /\ file.exists
        /\ (pc[t] = "idle" /\ result[t].error = "IO Error" /\ before.file.exists
               /\ ~backup_file[t].exists)
              => file = before.file

\* the copy of an existing file is complete and the write has not begun
C6_Witness ==
    /\ pc["t1"] = "write"
    /\ file.exists
    /\ backup_file["t1"] = file
    /\ profiles["t1"] # StoredMap(file)

\* C7: at most one thread is in the write phase of save_profiles, and it is
\* the holder of CONFIG_LOCK.
C7_WriteExclusion ==
    /\ Cardinality({t \in threads : pc[t] = "write"}) <= 1
    /\ \A t \in threads : pc[t] = "write" <=> CONFIG_LOCK = t

\* one thread is in its write phase while the other waits for the lock
C7_Witness ==
    /\ pc["t1"] = "write"
    /\ pc["t2"] = "lock"

\* C8: loading a path that does not exist returns Ok with the empty
\* ConfigFile and creates no file; loading a file that does not parse returns
\* an error (the parse error whenever the file can be read).
C8_Load ==
    \A t \in threads :
        Returned(t, "load_config_file")
        => /\ ~before.file.exists =>
                 result[t] = Ok(ConfigFileDefault) /\ ~file.exists
           /\ (before.file.exists /\ ~ParseOk(before.file.text)) =>
                 result[t].status = "Err" /\ result[t].error \in LoadErrors
           /\ result[t].error = "TOML Parsing Error" =>
                 before.file.exists /\ ~ParseOk(before.file.text)

C8_Witness ==
    /\ Returned("t1", "load_config_file")
    /\ before.file.exists
    /\ ~ParseOk(before.file.text)
    /\ result["t1"].error = "TOML Parsing Error"

\* C9: the set-default command with a stored key p fails only when the
\* environment does; when it succeeds the stored default is p,
\* get_default_profile returns p and the stored map is what it was.
C9_SetDefaultStored ==
    \A t \in threads :
        (Returned(t, "SetDefaultCommand") /\ op[t].key \in DOMAIN StoredMap(before.file))
        => /\ result[t].status = "Err" => result[t].error \in IoErrors
           /\ result[t].status = "Ok" =>
                /\ load_config_file(TRUE) =
                       Ok(ConfigFile(op[t].key, StoredMap(before.file)))
                /\ get_default_profile = op[t].key

C9_Witness ==
    /\ Returned("t1", "SetDefaultCommand")
    /\ result["t1"].status = "Ok"
    /\ StoredDefault(before.file) \notin {None, op["t1"].key}
    /\ StoredDefault(file) = op["t1"].key
    /\ Cardinality(DOMAIN StoredMap(file)) = 2

\* C10: the set-default command with a key that is not stored returns the
\* 'Profile not found' error (or the load's error), does not call
\* set_default_profile, and leaves the in-memory default and the file as they
\* were.
C10_SetDefaultAbsent ==
    \A t \in threads :
        (Returned(t, "SetDefaultCommand") /\ op[t].key \notin DOMAIN StoredMap(before.file))
        => /\ result[t].status = "Err"
           /\ result[t].error \in {"Profile not found"} \cup LoadErrors
           /\ callee[t] # "set_default_profile"
           /\ get_default_profile = before.default_profile
           /\ file = before.file

C10_Witness ==
    /\ Returned("t1", "SetDefaultCommand")
    /\ op["t1"].key \notin DOMAIN StoredMap(before.file)
    /\ DOMAIN StoredMap(before.file) # {}
    /\ result["t1"].error = "Profile not found"
    /\ get_default_profile # None

\* C11: the unset-default command on a store that loads fails only when the
\* environment does, whether or not a default was set; when it succeeds the
\* stored state has no default and the same profile map as before, and a
\* store that an unset-default has written is left exactly as it is.
C11_UnsetDefault ==
    \A t \in threads :
        (Returned(t, "UnsetDefaultCommand")
            /\ (before.file.exists => ParseOk(before.file.text)))
        => /\ result[t].status = "Err" => result[t].error \in IoErrors
           /\ result[t].status = "Ok" =>
                /\ load_config_file(TRUE) = Ok(ConfigFile(None, StoredMap(before.file)))
                /\ LinesOf(file.text, "default_profile") = {}
                /\ get_default_profile = None
                /\ before.file = FileOf(Serialize(ConfigFile(None, StoredMap(before.file))))
                      => file = before.file

\* a stored default was removed and the profiles were kept
C11_Witness ==
    /\ Returned("t1", "UnsetDefaultCommand")
    /\ result["t1"].status = "Ok"
    /\ StoredDefault(before.file) # None
    /\ before.default_profile # None
    /\ Cardinality(DOMAIN StoredMap(file)) = 2

\* C14: from an empty store, after any sequence of add, update, delete,
\* set-default and unset-default commands, the stored default marker is unset
\* or a key of the stored profile map.
C14_DefaultInMap ==
    AllIdle => StoredDefault(file) \in DOMAIN StoredMap(file) \cup {None}

(* ----------------------- the origin URL parser ------------------------- *)
\* the git command printed the origin URL and the parser has run on it
Fetched == parsed.status # "none" /\ parsed.error # "No remote 'origin' found"

FormatErrors ==
    {"Remote 'origin' URL is empty", "Invalid remote repository URL format",
     "Unsupported remote repository URL format"}

\* one trailing occurrence of suf removed (str::strip_suffix, or s itself)
StripSuffix(s, suf) == IF EndsWith(s, suf) THEN SubSeq(s, 1, Len(s) - Len(suf)) ELSE s

\* a name: no ':' and no '/' in it
IsName(s) == \A i \in DOMAIN s : s[i] \notin {":", "/"}

\* the SSH form of owner/repo on some host
SshForm(owner, repo) == GitAtPrefix \o <<"h", ":">> \o owner \o <<"/">> \o repo \o DotGit

\* C17: a git@ URL is split at its first ':', the part after it has a trailing
\* .git stripped and is split on '/': owner is the first segment, repo the
\* second; the parse fails with a format error exactly when there is no ':'
\* or there are fewer than two segments.
C17_GitAtParse ==
    (Fetched /\ StartsWith(git.origin.url, GitAtPrefix)) =>
        LET url == git.origin.url
            i == IndexOf(url, ":")
            segs == Split(StripSuffix(SubSeq(url, i + 1, Len(url)), DotGit), "/")
        IN  IF i = 0 \/ Len(segs) < 2
            THEN parsed.status = "Err" /\ parsed.error \in FormatErrors
            ELSE parsed = ParseOk2(segs[1], segs[2])

\* C18: an https:// URL always parses, owner is the second-to-last segment,
\* repo the last segment with one trailing .git stripped; the SSH form of the
\* same owner and repo parses to the same pair.
C18_HttpsParse ==
    (Fetched /\ StartsWith(git.origin.url, HttpsPrefix)) =>
        LET parts == Split(git.origin.url, "/")
            owner == parts[Len(parts) - 1]
            repo == StripSuffix(parts[Len(parts)], DotGit)
        IN  /\ parsed = ParseOk2(owner, repo)
            /\ (IsName(owner) /\ IsName(repo)) => ParseUrl(SshForm(owner, repo)) = parsed

\* C19: the empty URL and every URL that starts with neither git@ nor
\* https:// gets a format error and no (owner, repo) pair.
C19_OtherSchemes ==
    (Fetched /\ (git.origin.url = <<>>
                  \/ (~StartsWith(git.origin.url, GitAtPrefix)
                      /\ ~StartsWith(git.origin.url, <<"h", "t", "t", "p", "s", ":", "/", "/">>))))
    => /\ parsed.status = "Err"
       /\ parsed.error \in FormatErrors
       /\ parsed.user = <<>> /\ parsed.repo = <<>>

\* an http:// URL with an owner and a repository in it was rejected
C19_Witness ==
    /\ Fetched
    /\ git.origin.url = <<"h", "t", "t", "p", ":", "/", "/", "a", "/", "b">> \o DotGit
    /\ parsed.status = "Err"

(* ------------------------------- switch -------------------------------- *)
\* thread t has returned from a switch whose load_profiles succeeded, run by
\* a Config that holds the stored default
SwitchDone(t) ==
    /\ Returned(t, "SwitchCommand")
    /\ ~(result[t].status = "Err" /\ result[t].error \in LoadErrors)
    /\ before.default_profile = StoredDefault(before.file)

GitErrors == {"Git Command Error"}
PromptErrors == {"Interactive Input Error"}

\* C12 as stated: explicit argument, then stored default, then prompt; with
\* no argument and no stored default the interactive selection is shown.
C12_Original ==
    \A t \in threads : SwitchDone(t) =>
        LET M == StoredMap(before.file)
            a == op[t].arg
            d == before.default_profile
        IN  /\ a \in DOMAIN M =>
                  switched.applied = a /\ ~switched.prompted /\ ~switched.by_default
            /\ (a = None /\ d \in DOMAIN M) =>
                  switched.applied = d /\ ~switched.prompted /\ switched.by_default
            /\ (a = None /\ d = None) => switched.prompted

\* C12, amended: the same priority; with no argument and no stored default
\* the interactive selection is shown when the profile map is not empty
\* (with an empty map switch reports that there are no profiles).
C12_SwitchPriority ==
    \A t \in threads : SwitchDone(t) =>
        LET M == StoredMap(before.file)
            a == op[t].arg
            d == before.default_profile
        IN  /\ a \in DOMAIN M =>
                  switched.applied = a /\ ~switched.prompted /\ ~switched.by_default
            /\ (a = None /\ d \in DOMAIN M) =>
                  switched.applied = d /\ ~switched.prompted /\ switched.by_default
            /\ (a = None /\ d = None /\ DOMAIN M # {}) => switched.prompted
            /\ (a = None /\ d = None /\ DOMAIN M = {}) =>
                  ~switched.prompted /\ switched.applied = None /\ result[t].status = "Ok"

\* the argument won over a different stored default
C12_Witness ==
    /\ SwitchDone("t1")
    /\ result["t1"].status = "Ok"
    /\ op["t1"].arg = KeyNames[2]
    /\ before.default_profile = KeyNames[1]
    /\ KeyNames[1] \in DOMAIN StoredMap(before.file)
    /\ switched.applied = KeyNames[2]
    /\ git.user_name = UserNames[2]

\* C13 as stated: with no argument and a stored default that is not a key of
\* the map, switch does not fail and applies nothing on its own; it falls
\* back to the interactive selection, and what is applied is a key of the map.
C13_Original ==
    \A t \in threads : SwitchDone(t) =>
        LET M == StoredMap(before.file)
            d == before.default_profile
        IN  /\ switched.applied # None => switched.applied \in DOMAIN M
            /\ (op[t].arg = None /\ d # None /\ d \notin DOMAIN M) =>
                  /\ switched.prompted /\ ~switched.by_default
                  /\ result[t].status = "Err" => result[t].error \in PromptErrors \cup GitErrors

\* C13, amended: the same, for a profile map that is not empty; with an
\* empty map there is nothing to select and switch returns Ok without a prompt.
C13_DanglingDefault ==
    \A t \in threads : SwitchDone(t) =>
        LET M == StoredMap(before.file)
            d == before.default_profile
        IN  /\ switched.applied # None => switched.applied \in DOMAIN M
            /\ (op[t].arg = None /\ d # None /\ d \notin DOMAIN M /\ DOMAIN M # {}) =>
                  /\ switched.prompted /\ ~switched.by_default
                  /\ result[t].status = "Err" => result[t].error \in PromptErrors \cup GitErrors
            /\ (op[t].arg = None /\ d # None /\ DOMAIN M = {}) =>
                  ~switched.prompted /\ switched.applied = None /\ result[t].status = "Ok"

\* a default naming no profile led to the prompt, and the selected profile
\* was applied
C13_Witness ==
    /\ SwitchDone("t1")
    /\ op["t1"].arg = None
    /\ before.default_profile = KeyNames[2]
    /\ DOMAIN StoredMap(before.file) = {KeyNames[1]}
    /\ switched.prompted
    /\ switched.applied = KeyNames[1]
    /\ result["t1"].status = "Ok"
    /\ git.user_email = Emails[1]

\* C15: after a successful switch to P in a repository whose origin parses to
\* (owner, repo), user.name and user.email are P's, and the origin is
\* git@<P.ssh_host>:<owner>/<repo>.git when P has an SSH host, unchanged when
\* it has none.
C15_SwitchApplies ==
    \A t \in threads :
        (Returned(t, "SwitchCommand") /\ result[t].status = "Ok"
            /\ switched.applied # None /\ parsed.status = "Ok")
        => LET P == StoredMap(before.file)[switched.applied]
           IN  /\ parsed = ParseUrl(switched.git.origin.url)
               /\ git.user_name = P.name
               /\ git.user_email = P.email
               /\ IF P.ssh_host # ""
                  THEN git.origin = OriginOf(GitAtPrefix \o HostChars(P.ssh_host) \o <<":">>
                                             \o parsed.user \o <<"/">> \o parsed.repo \o DotGit)
                  ELSE git.origin = switched.git.origin

\* an https:// origin became the SSH URL of the profile's host
C15_Witness ==
    /\ Returned("t1", "SwitchCommand")
    /\ result["t1"].status = "Ok"
    /\ switched.applied = KeyNames[2]
    /\ StartsWith(switched.git.origin.url, HttpsPrefix)
    /\ git.origin.url = GitAtPrefix \o HostChars(SshHosts[2]) \o <<":", "a", "/", "b">> \o DotGit
    /\ git.user_name = UserNames[2]

\* C16: without an origin, or with an origin whose URL is not recognized,
\* a switch that has chosen its profile never fails because of the origin:
\* it fails only when git config does, the remote is left as it was, and
\* otherwise user.name and user.email are set and Ok is returned.
C16_NoOriginStillSwitches ==
    \A t \in threads :
        (Returned(t, "SwitchCommand") /\ switched.applied # None
            /\ (~switched.git.origin.exists \/ ParseUrl(switched.git.origin.url).status = "Err"))
        => LET P == StoredMap(before.file)[switched.applied]
           IN  /\ git.origin = switched.git.origin
               /\ \/ /\ result[t].status = "Ok"
                     /\ git.user_name = P.name
                     /\ git.user_email = P.email
                  \/ /\ result[t].status = "Err"
                     /\ result[t].error \in GitErrors
                     /\ parsed.status = "none"

\* a repository without origin got the profile's name and email
C16_Witness ==
    /\ Returned("t1", "SwitchCommand")
    /\ switched.applied = KeyNames[1]
    /\ ~switched.git.origin.exists
    /\ parsed.status = "Err"
    /\ result["t1"].status = "Ok"
    /\ git.user_name = UserNames[1]
    /\ git.origin = NoOrigin

(* ------------------------- the SSH config parser ----------------------- *)
\* the Host lines among the first n lines of the configuration
HostLines(n) ==
    SelectSeq(SubSeq(ssh.content, 1, n), LAMBDA line : StartsWith(trim(line), HostKw))

\* C20: the parser emits one entry per line that, trimmed, begins with
\* "Host ", in the order of the lines, with the second whitespace-separated
\* token of the line as alias (the first alias only); each such line closes
\* the open entry, and the entry open at the end of the input is appended.
C20_OneEntryPerHostLine ==
    ssh.state \in {"lines", "done"} =>
        LET entries == ssh.hosts \o ssh.current_host
            lines == HostLines(ssh.pos)
        IN  /\ Len(entries) = Len(lines)
            /\ \A i \in DOMAIN lines : entries[i].name = SecondToken(lines[i])
            /\ ssh.state = "done" => ssh.current_host = <<>> /\ ssh.pos = Len(ssh.content)
            /\ ssh.current_host # <<>> => Len(lines) > 0

\* "Host a b", a field line, then "  Host b": two entries, a and b
C20_Witness ==
    /\ ssh.state = "done"
    /\ Len(ssh.content) = 3
    /\ ssh.content[1] = <<"H", "o", "s", "t", " ", "a", " ", "b">>
    /\ ssh.content[3] = <<" ", " ", "H", "o", "s", "t", " ", "b">>
    /\ Len(ssh.hosts) = 2
    /\ ssh.hosts[1].name = <<"a">>
    /\ ssh.hosts[2].name = <<"b">>

\* the positions of the Host lines among the first n lines, and the lines of
\* the block that the Host line at p opens: up to the next Host line or n
HostPos(n) == {i \in 1..n : StartsWith(trim(ssh.content[i]), HostKw)}

BlockOf(p, n) == {i \in (p + 1)..n : \A q \in HostPos(n) : q > p => i < q}

\* the position of the j-th Host line
NthHostPos(j, n) == CHOOSE p \in HostPos(n) : Cardinality({q \in HostPos(n) : q <= p}) = j

\* the second token of the last line of the block at p that begins with kw
FieldOf(p, n, kw) ==
    LET S == {i \in BlockOf(p, n) : StartsWith(trim(ssh.content[i]), kw)}
    IN  IF S = {} THEN <<>>
        ELSE SecondToken(ssh.content[CHOOSE i \in S : \A k \in S : k <= i])

\* C21: each field of an entry is the second token of the last HostName,
\* User or Port line (IdentityFile too when listing hosts) of the entry's own
\* block, and is empty without such a line; lines before the first Host
\* line, lines of other blocks and all other lines have no effect.
C21_FieldLines ==
    ssh.state \in {"lines", "done"} =>
        LET entries == ssh.hosts \o ssh.current_host
            n == ssh.pos
        IN  \A j \in DOMAIN entries :
              LET p == NthHostPos(j, n)
              IN  /\ entries[j].hostname = FieldOf(p, n, HostNameKw)
                  /\ entries[j].user = FieldOf(p, n, UserKw)
                  /\ entries[j].port = FieldOf(p, n, PortKw)
                  /\ entries[j].identity_file =
                        IF ssh.variant = "list_ssh" THEN FieldOf(p, n, IdentityFileKw) ELSE <<>>

\* "Host a", "HostName h", "HostName g": the later line replaced the earlier
C21_Witness ==
    /\ ssh.state = "done"
    /\ Len(ssh.content) = 3
    /\ ssh.content[2] = <<"H", "o", "s", "t", "N", "a", "m", "e", " ", "h">>
    /\ ssh.content[3] = <<"H", "o", "s", "t", "N", "a", "m", "e", " ", "g">>
    /\ Len(ssh.hosts) = 1
    /\ ssh.hosts[1].hostname = <<"g">>

\* C22: a missing, unreadable or empty SSH configuration gives the empty
\* sequence of hosts and no error: the command goes on (it fails only when
\* the home directory, and so the path of the file, cannot be found).
C22_NoSshConfig ==
    /\ ssh.error \in {"", "Could not find home directory."}
    /\ (ssh.state = "no_content" \/ (ssh.state = "done" /\ ssh.content = <<>>)) =>
          ssh.hosts = <<>> /\ ssh.current_host = <<>> /\ ssh.error = ""
    /\ (ssh.state \in {"no_content", "done", "failed"} /\ ~ssh.exists) =>
          ssh.state \in {"no_content", "failed"}

\* a file with a Host line in it could not be read: no hosts, no error
C22_Witness ==
    /\ ssh.state = "no_content"
    /\ ssh.exists
    /\ Len(ssh.content) = 2
    /\ ssh.content[1] = <<"H", "o", "s", "t", " ", "a">>
    /\ ssh.hosts = <<>>
    /\ ssh.error = ""

\* the whole parse of a text: the loop and the append after it
RECURSIVE ParseFrom(_, _, _, _, _)
ParseFrom(lines, i, hosts, cur, variant) ==
    IF i > Len(lines) THEN hosts \o cur
    ELSE LET r == ParseLine(hosts, cur, lines[i], variant)
         IN  ParseFrom(lines, i + 1, r.hosts, r.current_host, variant)

\* an entry of the parser as answers of add-ssh
AsAnswers(h) ==
    [host |-> h.name, hostname |-> h.hostname, user |-> h.user, port |-> h.port,
     identity_file |-> h.identity_file]

\* the entry a parse gives for the answers e, when it gives them all back
AsEntry(e, variant) ==
    [name |-> e.host, hostname |-> e.hostname, user |-> e.user, port |-> e.port,
     identity_file |-> IF variant = "list_ssh" THEN e.identity_file ELSE <<>>]

\* every entry the parser has produced, written as a block and parsed again,
\* gives that one entry
ReparseSame ==
    ssh.state = "done" =>
        \A j \in DOMAIN ssh.hosts :
            ParseFrom(SshBlock(AsAnswers(ssh.hosts[j])), 1, <<>>, <<>>, ssh.variant)
                = <<ssh.hosts[j]>>

\* the block add-ssh has written parses back to the values entered: it is
\* the last entry of a parse of the file
AddedParsesBack ==
    (ssh.state = "done" /\ ssh.added # <<>>) =>
        /\ ssh.hosts # <<>>
        /\ ssh.hosts[Len(ssh.hosts)] = AsEntry(ssh.added[1], ssh.variant)

\* C23: parsing is idempotent under re-serialization with the add-ssh block,
\* and a block written by add-ssh parses back to the values entered.
C23_RoundTrip == ReparseSame /\ AddedParsesBack

\* C24: update or delete of a profile key that is not in the store (a store
\* that loads and has profiles) returns an error result, not a success.
C24_NotFoundIsError ==
    \A t \in threads :
        ( /\ Returned(t, "UpdateCommand") \/ Returned(t, "DeleteCommand")
          /\ op[t].arg # None
          /\ before.file.exists /\ ParseOk(before.file.text)
          /\ DOMAIN StoredMap(before.file) # {}
          /\ op[t].arg \notin DOMAIN StoredMap(before.file) )
        => result[t].status = "Err"

\* set_default_profile has returned an error to thread t
SetDefaultFailed(t) == Returned(t, "set_default_profile") /\ result[t].status = "Err"

Mutated(t) == Saved(t) /\ op[t].name \in {"add_profile", "update_profile", "delete_profile"}

\* C26: add_profile, update_profile and delete_profile write the in-memory
\* default of the Config as the marker; on a Config that holds what Config::new
\* reads from the file, the marker in the file after a successful call is the
\* one that was in the file before it.
C26_DefaultKept ==
    \A t \in threads :
        Mutated(t) =>
            /\ StoredDefault(file) = before.default_profile
            /\ (before.default_profile = StoredDefault(before.file) =>
                    StoredDefault(file) = StoredDefault(before.file))

\* a profile was added to a file with a default marker, by a Config that
\* holds this marker
C26_Witness ==
    /\ Mutated("t1")
    /\ op["t1"].name = "add_profile"
    /\ op["t1"].key = KeyNames[2]
    /\ KeyNames[2] \in DOMAIN StoredMap(file)
    /\ KeyNames[2] \notin DOMAIN StoredMap(before.file)
    /\ before.default_profile = KeyNames[1]
    /\ StoredDefault(before.file) = KeyNames[1]
    /\ StoredDefault(file) = KeyNames[1]

\* C27: when two threads have each added a profile, with distinct keys, and
\* both calls have returned Ok, the file holds both keys.
C27_NoLostUpdate ==
    ( /\ threads = Threads
      /\ \A t \in Threads :
            Returned(t, "add_profile") /\ result[t].status = "Ok"
      /\ op["t1"].key # op["t2"].key )
    => {op["t1"].key, op["t2"].key} \subseteq DOMAIN StoredMap(file)

Mutators == {"add_profile", "update_profile", "delete_profile", "set_default_profile"}

\* the backing file exists and does not parse
Unparseable(f) == f.exists /\ ~ParseOk(f.text)

\* C28: on a backing file that exists and does not parse, add_profile,
\* update_profile, delete_profile and set_default_profile get no further than
\* their load: they return the parse error (or the read error), with no backup
\* made and the file as it was.
C28_UnparseableKept ==
    \A t \in threads :
        (op[t].name \in Mutators /\ Unparseable(before.file)) =>
            /\ pc[t] \in {"load", "idle"}
            /\ file = before.file
            /\ backup_file[t] = NoFile
            /\ Returned(t, op[t].name) =>
                  result[t].status = "Err" /\ result[t].error \in LoadErrors

\* add_profile has returned the parse error on a file of one junk line
C28_Witness ==
    /\ Returned("t1", "add_profile")
    /\ result["t1"].error = "TOML Parsing Error"
    /\ Unparseable(file)
    /\ file = FileOf(<<JunkLine>>)

\* the answers do not pass validation: the email has no '@' or the SSH host
\* is empty
Invalid(p) == p.email = InvalidEmail \/ p.ssh_host = ""

\* C29: in add and update, validation comes before every file effect: with
\* an email without '@' or an empty SSH host the command gets no further than
\* its prompts, the file stays as it was, and add returns an error (the
\* validation error when the prompts were answered); so every profile in the
\* store has an email with '@' and a non-empty ssh_host.
C29_ValidBeforeEffects ==
    /\ \A t \in threads :
          (op[t].name \in {"AddCommand", "UpdateCommand"} /\ Invalid(op[t].profile)) =>
              /\ pc[t] \in {"idle", "cmd_load", "cmd_input"}
              /\ file = before.file
              /\ Returned(t, "AddCommand") =>
                    /\ result[t].status = "Err"
                    /\ result[t].error \in {"Validation Error", "Interactive Input Error"}
              /\ (Returned(t, "UpdateCommand") /\ op[t].key # None) =>
                    /\ result[t].status = "Err"
                    /\ result[t].error \in {"Validation Error", "Interactive Input Error"}
    /\ \A k \in DOMAIN StoredMap(file) : ~Invalid(StoredMap(file)[k])

\* update of a stored profile with an email without '@' has returned the
\* validation error
C29_Witness ==
    /\ Returned("t1", "UpdateCommand")
    /\ op["t1"].key \in DOMAIN StoredMap(file)
    /\ op["t1"].profile.email = InvalidEmail
    /\ result["t1"].error = "Validation Error"

\* C30: the URL that set_remote writes for a host, an owner and a repository
\* parses back to this owner and this repository.
C30_WrittenUrlParsesBack ==
    Fetched =>
        \A i \in DOMAIN SshHosts, o \in Owners, r \in Repos :
            git.origin.url = RemoteUrl(SshHosts[i], o, r) => parsed = ParseOk2(o, r)

=============================================================================
